---- MODULE Spec2Model ----
(***************************************************************************)
(* Live bus tracking: the Firestore-backed live-location store and its     *)
(* live queries (FirebaseService), the driver-side tracking session        *)
(* (DriverDashboard) that owns a geolocation watch and publishes samples,  *)
(* and the sampler with its speed estimator (LocationService).             *)
(***************************************************************************)
EXTENDS Integers, Sequences, FiniteSets, TLC

\* Largest timestamp explored: what Date.now() returns lies in 1..MaxTime.
MaxTime == 2
\* Largest watch id navigator.geolocation.watchPosition hands out.
MaxWatchId == 2
\* Largest number of startTracking invocations awaiting a result at once.
MaxStarts == 2
\* Largest value Date.now() returns when a record is stopped (stoppedAt).
MaxStopTime == 1
\* Largest number of requestLocationPermission calls of the panel button and
\* of stopTracking invocations awaiting a result at once.
MaxRequests == 1
MaxStops == 1
\* Largest number of times an observer calls the function onSnapshot returned.
MaxUnsubscribes == 2
\* Largest position index along the meridian the vehicle moves on, the
\* non-zero speed (m/s) the provider reports, and largest number of one-shot
\* requests of LocationService.getCurrentPosition awaiting the provider at once.
MaxPos == 2
MaxSpeed == 1
MaxFetches == 1

\* Document ids of the liveLocations collection (locationData.driverId).
DocIds == {"d1", "d2"}
\* Values of the busNumber field, the key observers subscribe by.
Buses == {"b1", "b2"}
Times == 1..MaxTime
StopTimes == 1..MaxStopTime

VARIABLES
    liveLocations,      \* the liveLocations collection: a set of documents
    drivers,            \* the status document of the session's driver
    routeSubBus,        \* busNumber of the subscribeToLiveLocation listener, "none" if none
    routeCalled,        \* the listener's callback has been invoked
    routeDelivered,     \* last value passed to it: <<>> is null, <<r>> a record
    routeFresh,         \* no write reached the store since that callback
    routeUnsubscribes,  \* times the function onSnapshot returned has been called
    fleetSub,           \* a subscribeToAllLiveLocations listener is registered
    fleetCalled,        \* its callback has been invoked
    fleetDelivered,     \* last list passed to it
    lastWrite,          \* the last write the store accepted
    isTracking,         \* DriverDashboard state
    watchId,            \* DriverDashboard state, 0 is null
    locationPermission, \* DriverDashboard state
    locationError,      \* DriverDashboard state, "" when no error is shown
    currentLocation,    \* DriverDashboard state: a fix is held (not null)
    starts,             \* startTracking invocations suspended at an await
    requests,           \* requestLocationPermission invocations started by the panel button
    stops,              \* stopTracking invocations suspended at an await
    watches,            \* watch ids registered with navigator.geolocation
    nextWatchId,        \* the id the next watchPosition call returns
    mounted,            \* App renders DriverDashboard (a driver is logged in)
    lsWatchId,          \* LocationService.watchId, 0 is null
    previousLocation,   \* LocationService.previousLocation, 0 is null
    previousTimestamp,  \* LocationService.previousTimestamp, 0 is null
    fetches,            \* getCurrentPosition requests the provider has not answered
    cleared,            \* watch ids stopWatching has handed to clearWatch
    settled,            \* registered watches whose startWatching promise is settled
    lastCall,           \* the last calculateSpeed call: its inputs and its result
    lastEvent           \* the handler or callback that ran last

storeVars == <<liveLocations, routeSubBus, routeCalled, routeDelivered, routeFresh,
               routeUnsubscribes, fleetSub, fleetCalled, fleetDelivered, lastWrite>>
sessionVars == <<drivers, isTracking, watchId, locationPermission, locationError,
                 currentLocation, starts, requests, stops, watches, nextWatchId, mounted>>
samplerVars == <<lsWatchId, previousLocation, previousTimestamp, fetches, cleared, settled,
                 lastCall>>
vars == <<storeVars, sessionVars, samplerVars, lastEvent>>

----------------------------------------------------------------------------
\* The store: FirebaseService live-location operations.

\* A LiveLocation document. timestamp stands for the whole sample (latitude,
\* longitude, speed, accuracy are written and read together with it);
\* stoppedAt = 0 is a document without the stoppedAt field.
LiveLocation(id, busNumber, timestamp, isActive, stoppedAt) ==
    [id |-> id, busNumber |-> busNumber, timestamp |-> timestamp,
     isActive |-> isActive, stoppedAt |-> stoppedAt]

DocsOf(coll, id) == {r \in coll : r.id = id}

\* setDoc(ref, data, {merge: true}): the fields of data replace those of the
\* document with this id, fields data does not carry (stoppedAt) are kept.
setDocAppend(coll, id, busNumber, timestamp, isActive) ==
    coll \cup {LiveLocation(id, busNumber, timestamp, isActive, 0)}
setDocOverwrite(coll, id, busNumber, timestamp, isActive) ==
    (coll \ DocsOf(coll, id)) \cup {LiveLocation(id, busNumber, timestamp, isActive, 0)}
setDocMerge(coll, id, busNumber, timestamp, isActive) ==
    LET old == DocsOf(coll, id)
        kept == IF old = {} THEN 0 ELSE (CHOOSE r \in old : TRUE).stoppedAt
    IN (coll \ old) \cup {LiveLocation(id, busNumber, timestamp, isActive, kept)}

\* The same write with data that carries no isActive key: the merge leaves
\* the document's isActive as it was, and a new document gets none. A
\* document without the field matches no isActive == true filter; it is
\* represented with isActive = FALSE.
setDocMergeWithoutIsActive(coll, id, busNumber, timestamp) ==
    LET old == DocsOf(coll, id)
        keptActive == IF old = {} THEN FALSE ELSE (CHOOSE r \in old : TRUE).isActive
        kept == IF old = {} THEN 0 ELSE (CHOOSE r \in old : TRUE).stoppedAt
    IN (coll \ old) \cup {LiveLocation(id, busNumber, timestamp, keptActive, kept)}

updateLiveLocation(coll, locationData) ==
    setDocMerge(coll, locationData.driverId, locationData.busNumber,
                locationData.timestamp, locationData.isActive)

\* updateDoc rejects (not-found) when the document does not exist.
stopLiveLocationOK(coll, driverId) == DocsOf(coll, driverId) # {}

stopLiveLocationDelete(coll, driverId, t) == coll \ DocsOf(coll, driverId)
stopLiveLocationKeepActive(coll, driverId, t) ==
    {IF r.id = driverId THEN [r EXCEPT !.stoppedAt = t] ELSE r : r \in coll}
stopLiveLocation(coll, driverId, t) ==
    {IF r.id = driverId THEN [r EXCEPT !.isActive = FALSE, !.stoppedAt = t] ELSE r
        : r \in coll}

\* orderBy('timestamp', 'desc'); equal timestamps fall back to the document id.
IdRank(id) == IF id = "d1" THEN 1 ELSE 2
Before(r, s) ==
    \/ r.timestamp > s.timestamp
    \/ r.timestamp = s.timestamp /\ IdRank(r.id) > IdRank(s.id)

RECURSIVE OrderDesc(_)
OrderDesc(S) ==
    IF S = {} THEN <<>>
    ELSE LET first == CHOOSE r \in S : \A s \in S \ {r} : Before(r, s)
         IN <<first>> \o OrderDesc(S \ {first})

Limit(seq, n) == IF Len(seq) <= n THEN seq ELSE SubSeq(seq, 1, n)

\* The query of subscribeToLiveLocation and what its listener passes on.
LiveLocationQueryAnyActivity(coll, busNumber) ==
    Limit(OrderDesc({r \in coll : r.busNumber = busNumber}), 1)
LiveLocationQuery(coll, busNumber) ==
    Limit(OrderDesc({r \in coll : r.busNumber = busNumber /\ r.isActive}), 1)

\* The query of subscribeToAllLiveLocations.
AllLiveLocationsQueryAnyActivity(coll) == OrderDesc(coll)
AllLiveLocationsQuery(coll) == OrderDesc({r \in coll : r.isActive})

NoWrite == [kind |-> "none", id |-> "none", busNumber |-> "none", isActive |-> FALSE]

----------------------------------------------------------------------------
\* The driver session: DriverDashboard and the geolocation provider.
\* DriverDashboard calls the services through startLocationTracking,
\* stopLocationTracking, updateDriverStatus, getCurrentLocation and
\* watchPosition. The first two are taken to be the live-location operations
\* of FirebaseService under the session's document; updateDriverStatus
\* overwrites the driver's status document; getCurrentLocation settles with a
\* position or a provider error; watchPosition registers a watch with
\* navigator.geolocation and returns its id (the id stopTracking hands to
\* clearWatch).

\* The document and busNumber the session publishes under
\* (driver.busRoute || 'route1', driver.busNumber).
SessionDoc == "d1"
SessionBus == "b1"

\* Where a suspended startTracking waits: "perm" in requestLocationPermission
\* (line 65), "fix" in getCurrentLocation (line 69), "fixPermFailed" the same
\* after its requestLocationPermission caught a failure.
StartPcs == {"perm", "fix", "fixPermFailed"}
\* Where a suspended stopTracking waits: on stopLocationTracking (line 138),
\* which the store accepted ("deactOK") or rejected ("deactErr").
StopPcs == {"deactOK", "deactErr"}
\* How a one-shot fix ends: a position, or an error of the provider.
FixOutcomes == {"ok", "denied", "timeout"}
FixPcs == {"fix", "fixPermFailed"}
Permissions == {"granted", "denied", "prompt"}

StartsInFlight == starts["perm"] + starts["fix"] + starts["fixPermFailed"]
StopsInFlight == stops["deactOK"] + stops["deactErr"]
Move(pcs, from, to) == [pcs EXCEPT ![from] = @ - 1, ![to] = @ + 1]
Spawn(pcs, pc) == [pcs EXCEPT ![pc] = @ + 1]
Finish(pcs, pc) == [pcs EXCEPT ![pc] = @ - 1]

\* The start button is rendered while !isTracking and disabled when the
\* permission is 'denied'.
StartButtonEnabled == ~isTracking /\ locationPermission # "denied"
\* The "Request Location Access" button is rendered only when no location is
\* held and the permission is 'denied'.
RequestButtonVisible == ~currentLocation /\ locationPermission = "denied"
\* The stop button is rendered while isTracking.
StopButtonVisible == isTracking

\* startLocationTracking(route, newLocation, driverInfo): an active publish of
\* the sample under the session's document.
startLocationTracking(coll, t) ==
    updateLiveLocation(coll, [driverId |-> SessionDoc, busNumber |-> SessionBus,
                              timestamp |-> t, isActive |-> TRUE])
\* stopLocationTracking(route): deactivates the session's document.
stopLocationTrackingOK(coll) == stopLiveLocationOK(coll, SessionDoc)
stopLocationTracking(coll, t) == stopLiveLocation(coll, SessionDoc, t)

----------------------------------------------------------------------------
\* The sampler: LocationService and its speed estimator.

\* GeolocationCoordinates: positions 1..MaxPos lie on one meridian,
\* StepMetres apart (the spacing explored); speed is what the provider reports
\* in m/s (0 or MaxSpeed), NoSpeed when coords.speed is null.
Positions == 1..MaxPos
StepMetres == 100
NoSpeed == -1
ProviderSpeeds == {NoSpeed, 0, MaxSpeed}

Abs(x) == IF x < 0 THEN -x ELSE x
\* Math.round of the non-negative quotient n / d.
Round(n, d) == (2 * n + d) \div (2 * d)

\* calculateDistance on two points of the meridian: with equal longitudes the
\* haversine term is sin^2 of half the latitude difference and R * c is the
\* arc between them, in metres.
calculateDistanceSigned(p, q) == StepMetres * (q - p)
calculateDistance(p, q) == StepMetres * Abs(q - p)

NoCall == [branch |-> "none", watch |-> 0, coord |-> 0, speed |-> NoSpeed, now |-> 0,
           hadLocation |-> 0, hadTimestamp |-> 0, result |-> 0]

\* coords.speed || 0
SpeedOrZero(speed) == IF speed = NoSpeed \/ speed = 0 THEN 0 ELSE speed

\* calculateSpeed(coords) with Date.now() = now (in ms; its reads within one
\* call return the same value). The result is in tenths: 10 * (coords.speed
\* || 0) in the first-call branch, and Math.round(speed * 10) afterwards,
\* where speed = distance / timeDiff * 3.6 and timeDiff = (now - previous) / 1000.
calculateSpeedIgnoringProvider(prevLoc, prevTs, coord, speed, now) ==
    IF prevLoc = 0 \/ prevTs = 0
    THEN [result |-> 0, branch |-> "first"]
    ELSE [result |-> IF now - prevTs > 0
                     THEN Round(calculateDistance(prevLoc, coord) * 36000, now - prevTs)
                     ELSE 0,
          branch |-> "next"]
calculateSpeedNoElapsedGuard(prevLoc, prevTs, coord, speed, now) ==
    IF prevLoc = 0 \/ prevTs = 0
    THEN [result |-> 10 * SpeedOrZero(speed), branch |-> "first"]
    ELSE [result |-> IF now # prevTs
                     THEN Round(calculateDistance(prevLoc, coord) * 36000, Abs(now - prevTs))
                          * (IF now > prevTs THEN 1 ELSE -1)
                     ELSE -1,
          branch |-> "next"]
calculateSpeed(prevLoc, prevTs, coord, speed, now) ==
    IF prevLoc = 0 \/ prevTs = 0
    THEN [result |-> 10 * SpeedOrZero(speed), branch |-> "first"]
    ELSE [result |-> IF now - prevTs > 0
                     THEN Round(calculateDistance(prevLoc, coord) * 36000, now - prevTs)
                     ELSE 0,
          branch |-> "next"]

\* What a calculateSpeed call made for watch w (0: for a one-shot request)
\* leaves behind: both branches store the coordinate and Date.now(). The
\* call is recorded with the inputs it read: coords.speed is read in the
\* first-call branch only.
Estimate(w, coord, speed, now) ==
    LET r == calculateSpeed(previousLocation, previousTimestamp, coord, speed, now)
    IN /\ previousLocation' = coord
       /\ previousTimestamp' = now
       /\ lastCall' = [branch |-> r.branch, watch |-> w, coord |-> coord,
                       speed |-> IF r.branch = "first" THEN speed ELSE NoSpeed,
                       now |-> now,
                       hadLocation |-> previousLocation,
                       hadTimestamp |-> previousTimestamp, result |-> r.result]

dashboardVars == <<drivers, isTracking, watchId, locationPermission, locationError,
                   currentLocation, starts, requests, stops, mounted>>

\* getCurrentPosition(): the request is handed to the provider.
getCurrentPosition ==
    /\ fetches < MaxFetches
    /\ fetches' = fetches + 1
    /\ lastEvent' = "getCurrentPosition"
    /\ UNCHANGED <<storeVars, dashboardVars, watches, nextWatchId, lsWatchId,
                   previousLocation, previousTimestamp, cleared, settled, lastCall>>

\* Its success callback: the promise resolves with the enriched sample.
GetCurrentPositionSuccess(coord, speed, now) ==
    /\ fetches > 0
    /\ fetches' = fetches - 1
    /\ Estimate(0, coord, speed, now)
    /\ lastEvent' = "fetched"
    /\ UNCHANGED <<storeVars, dashboardVars, watches, nextWatchId, lsWatchId, cleared,
                   settled>>

\* Its error callback: the promise rejects with the provider's error.
GetCurrentPositionError ==
    /\ fetches > 0
    /\ fetches' = fetches - 1
    /\ lastEvent' = "fetchFailed"
    /\ UNCHANGED <<storeVars, dashboardVars, watches, nextWatchId, lsWatchId,
                   previousLocation, previousTimestamp, cleared, settled, lastCall>>

\* startWatching(callback): registers a watch and keeps its id.
startWatching ==
    /\ nextWatchId <= MaxWatchId
    /\ watches' = watches \cup {nextWatchId}
    /\ lsWatchId' = nextWatchId
    /\ nextWatchId' = nextWatchId + 1
    /\ lastEvent' = "startWatching"
    /\ UNCHANGED <<storeVars, dashboardVars, previousLocation, previousTimestamp,
                   fetches, cleared, settled, lastCall>>

\* The success callback of a registered watch: the enriched sample is passed
\* to the callback of startWatching and its promise is resolved.
WatchPositionSuccess(w, coord, speed, now) ==
    /\ w \in watches
    /\ Estimate(w, coord, speed, now)
    /\ settled' = settled \cup {w}
    /\ lastEvent' = "sample"
    /\ UNCHANGED <<storeVars, dashboardVars, watches, nextWatchId, lsWatchId, fetches,
                   cleared>>

\* The error callback of a registered watch: rejects the promise of
\* startWatching, which has no further effect once it is settled; the caller
\* has no other way to learn of the error.
WatchPositionError(w) ==
    /\ w \in watches
    /\ settled' = settled \cup {w}
    /\ lastEvent' = IF w \in settled THEN "sampleFailedSettled" ELSE "sampleFailed"
    /\ UNCHANGED <<storeVars, dashboardVars, watches, nextWatchId, lsWatchId,
                   previousLocation, previousTimestamp, fetches, cleared, lastCall>>

\* stopWatching(): with a watch id held, clears that watch and forgets the id
\* and the estimator state; without one it does nothing.
stopWatchingKeepWatch ==
    /\ IF lsWatchId # 0
       THEN /\ cleared' = cleared \cup {lsWatchId}
            /\ lsWatchId' = 0
            /\ previousLocation' = 0
            /\ previousTimestamp' = 0
            /\ UNCHANGED <<watches, settled>>
       ELSE UNCHANGED <<watches, lsWatchId, previousLocation, previousTimestamp, cleared,
                        settled>>
    /\ lastEvent' = IF lsWatchId # 0 THEN "stopWatching" ELSE "stopWatchingNoWatch"
    /\ UNCHANGED <<storeVars, dashboardVars, nextWatchId, fetches, lastCall>>
stopWatching ==
    /\ IF lsWatchId # 0
       THEN /\ watches' = watches \ {lsWatchId}
            /\ cleared' = cleared \cup {lsWatchId}
            /\ settled' = settled \ {lsWatchId}
            /\ lsWatchId' = 0
            /\ previousLocation' = 0
            /\ previousTimestamp' = 0
       ELSE UNCHANGED <<watches, lsWatchId, previousLocation, previousTimestamp, cleared,
                        settled>>
    /\ lastEvent' = IF lsWatchId # 0 THEN "stopWatching" ELSE "stopWatchingNoWatch"
    /\ UNCHANGED <<storeVars, dashboardVars, nextWatchId, fetches, lastCall>>

----------------------------------------------------------------------------
\* Store operations issued by arbitrary callers, and the listeners.

routeVars == <<routeSubBus, routeCalled, routeDelivered, routeUnsubscribes>>

\* onSnapshot's listener stays attached until the function onSnapshot returned
\* is called; from then on the SDK passes it no snapshot.
ListenerAttachedAlways(busNumber, unsubscribes) == busNumber # "none"
ListenerAttached(busNumber, unsubscribes) == busNumber # "none" /\ unsubscribes = 0
fleetVars == <<fleetSub, fleetCalled, fleetDelivered>>

\* updateLiveLocation(locationData): the caller supplies every field.
UpdateLiveLocation(id, busNumber, timestamp, isActive) ==
    /\ liveLocations' = updateLiveLocation(liveLocations,
            [driverId |-> id, busNumber |-> busNumber,
             timestamp |-> timestamp, isActive |-> isActive])
    /\ lastWrite' = [kind |-> "publish", id |-> id, busNumber |-> busNumber,
                     isActive |-> isActive]
    /\ routeFresh' = FALSE
    /\ UNCHANGED <<samplerVars, routeVars, fleetVars, sessionVars, lastEvent>>

\* updateLiveLocation(locationData) by a caller whose data has no isActive.
UpdateLiveLocationWithoutIsActive(id, busNumber, timestamp) ==
    /\ liveLocations' = setDocMergeWithoutIsActive(liveLocations, id, busNumber, timestamp)
    /\ lastWrite' = [kind |-> "publishWithoutIsActive", id |-> id,
                     busNumber |-> busNumber, isActive |-> FALSE]
    /\ routeFresh' = FALSE
    /\ UNCHANGED <<samplerVars, routeVars, fleetVars, sessionVars, lastEvent>>

\* stopLiveLocation(driverId) on an existing document; t is Date.now().
StopLiveLocation(id, t) ==
    /\ stopLiveLocationOK(liveLocations, id)
    /\ liveLocations' = stopLiveLocation(liveLocations, id, t)
    /\ lastWrite' = [kind |-> "stop", id |-> id,
                     busNumber |-> (CHOOSE r \in DocsOf(liveLocations, id) : TRUE).busNumber,
                     isActive |-> FALSE]
    /\ routeFresh' = FALSE
    /\ UNCHANGED <<samplerVars, routeVars, fleetVars, sessionVars, lastEvent>>

\* stopLiveLocation(driverId) with no such document: updateDoc rejects and
\* the store is left as it was.
StopLiveLocationNotFound(id) ==
    /\ ~stopLiveLocationOK(liveLocations, id)
    /\ lastWrite' = [kind |-> "rejected", id |-> id, busNumber |-> "none",
                     isActive |-> FALSE]
    /\ UNCHANGED <<samplerVars, liveLocations, routeVars, routeFresh, fleetVars,
                   sessionVars, lastEvent>>

\* subscribeToLiveLocation(busNumber, callback): registers the listener.
subscribeToLiveLocation(busNumber) ==
    /\ routeSubBus = "none"
    /\ routeSubBus' = busNumber
    /\ routeCalled' = FALSE
    /\ routeDelivered' = <<>>
    /\ routeFresh' = FALSE
    /\ routeUnsubscribes' = 0
    /\ UNCHANGED <<samplerVars, liveLocations, fleetVars, lastWrite, sessionVars, lastEvent>>

\* onSnapshot fires the listener: once after registration, then whenever the
\* query's result differs from the one delivered last.
RouteCallbackInitialOnly ==
    /\ ListenerAttached(routeSubBus, routeUnsubscribes)
    /\ ~routeCalled
    /\ routeDelivered' = LiveLocationQuery(liveLocations, routeSubBus)
    /\ routeCalled' = TRUE
    /\ routeFresh' = TRUE
    /\ UNCHANGED <<samplerVars, liveLocations, routeSubBus, routeUnsubscribes, fleetVars, lastWrite,
                   sessionVars, lastEvent>>
RouteCallback ==
    /\ ListenerAttached(routeSubBus, routeUnsubscribes)
    /\ \/ ~routeCalled
       \/ LiveLocationQuery(liveLocations, routeSubBus) # routeDelivered
    /\ routeDelivered' = LiveLocationQuery(liveLocations, routeSubBus)
    /\ routeCalled' = TRUE
    /\ routeFresh' = TRUE
    /\ UNCHANGED <<samplerVars, liveLocations, routeSubBus, routeUnsubscribes, fleetVars, lastWrite,
                   sessionVars, lastEvent>>

\* The observer calls the function subscribeToLiveLocation returned (the
\* Unsubscribe of onSnapshot): the listener is detached; a repeated call finds
\* it detached and does nothing more.
unsubscribe ==
    /\ routeSubBus # "none"
    /\ routeUnsubscribes < MaxUnsubscribes
    /\ routeUnsubscribes' = routeUnsubscribes + 1
    /\ UNCHANGED <<samplerVars, liveLocations, routeSubBus, routeCalled, routeDelivered, routeFresh,
                   fleetVars, lastWrite, sessionVars, lastEvent>>

\* subscribeToAllLiveLocations(callback).
subscribeToAllLiveLocations ==
    /\ ~fleetSub
    /\ fleetSub' = TRUE
    /\ fleetCalled' = FALSE
    /\ fleetDelivered' = <<>>
    /\ UNCHANGED <<samplerVars, liveLocations, routeVars, routeFresh, lastWrite,
                   sessionVars, lastEvent>>

FleetCallback ==
    /\ fleetSub
    /\ \/ ~fleetCalled
       \/ AllLiveLocationsQuery(liveLocations) # fleetDelivered
    /\ fleetDelivered' = AllLiveLocationsQuery(liveLocations)
    /\ fleetCalled' = TRUE
    /\ UNCHANGED <<samplerVars, liveLocations, routeVars, routeFresh, fleetSub, lastWrite,
                   sessionVars, lastEvent>>

Init ==
    /\ liveLocations = {}
    /\ drivers = [isOnline |-> FALSE, isTracking |-> FALSE]
    /\ routeSubBus = "none"
    /\ routeCalled = FALSE
    /\ routeDelivered = <<>>
    /\ routeFresh = FALSE
    /\ routeUnsubscribes = 0
    /\ fleetSub = FALSE
    /\ fleetCalled = FALSE
    /\ fleetDelivered = <<>>
    /\ lastWrite = NoWrite
    /\ isTracking = FALSE
    /\ watchId = 0
    /\ locationPermission = "prompt"
    /\ locationError = ""
    /\ currentLocation = FALSE
    /\ starts = [pc \in StartPcs |-> 0]
    /\ requests = 0
    /\ stops = [pc \in StopPcs |-> 0]
    /\ watches = {}
    /\ nextWatchId = 1
    /\ mounted = TRUE
    /\ lsWatchId = 0
    /\ previousLocation = 0
    /\ previousTimestamp = 0
    /\ fetches = 0
    /\ cleared = {}
    /\ settled = {}
    /\ lastCall = NoCall
    /\ lastEvent = "init"

\* Publishers and one route observer.
StoreNext ==
    \/ \E id \in DocIds, b \in Buses, t \in Times, a \in BOOLEAN :
            UpdateLiveLocation(id, b, t, a)
    \/ \E id \in DocIds, t \in StopTimes : StopLiveLocation(id, t)
    \/ \E id \in DocIds : StopLiveLocationNotFound(id)
    \/ \E b \in Buses : subscribeToLiveLocation(b)
    \/ RouteCallback

SpecStore == Init /\ [][StoreNext]_vars

\* Publishers, some of which leave isActive out, and one route observer.
PublishNext ==
    \/ \E id \in DocIds, b \in Buses, t \in Times, a \in BOOLEAN :
            UpdateLiveLocation(id, b, t, a)
    \/ \E id \in DocIds, b \in Buses, t \in Times :
            UpdateLiveLocationWithoutIsActive(id, b, t)
    \/ \E id \in DocIds, t \in StopTimes : StopLiveLocation(id, t)
    \/ \E id \in DocIds : StopLiveLocationNotFound(id)
    \/ \E b \in Buses : subscribeToLiveLocation(b)
    \/ RouteCallback

SpecPublish == Init /\ [][PublishNext]_vars

\* Publishers and one route observer that may detach its listener.
UnsubscribeNext ==
    \/ \E id \in DocIds, b \in Buses, t \in Times, a \in BOOLEAN :
            UpdateLiveLocation(id, b, t, a)
    \/ \E id \in DocIds, t \in StopTimes : StopLiveLocation(id, t)
    \/ \E id \in DocIds : StopLiveLocationNotFound(id)
    \/ \E b \in Buses : subscribeToLiveLocation(b)
    \/ RouteCallback
    \/ unsubscribe

SpecUnsubscribe == Init /\ [][UnsubscribeNext]_vars

\* The bus each driver signed in with (driver.busNumber).
BusOf(id) == IF id = "d1" THEN "b1" ELSE "b2"

\* Publishers, each on its own bus, and one fleet observer.
FleetNext ==
    \/ \E id \in DocIds, t \in Times, a \in BOOLEAN :
            UpdateLiveLocation(id, BusOf(id), t, a)
    \/ \E id \in DocIds, t \in StopTimes : StopLiveLocation(id, t)
    \/ \E id \in DocIds : StopLiveLocationNotFound(id)
    \/ subscribeToAllLiveLocations
    \/ FleetCallback

SpecFleet == Init /\ [][FleetNext]_vars

\* One driver publishing and stopping on its bus, a route observer that may
\* detach its listener and a fleet observer. The SDK delivers a snapshot to an
\* attached listener whenever the query's result has changed since the last
\* one it delivered, so neither callback stays enabled forever without running.
DeliveryNext ==
    \/ \E t \in Times, a \in BOOLEAN :
            UpdateLiveLocation(SessionDoc, SessionBus, t, a)
    \/ \E t \in StopTimes : StopLiveLocation(SessionDoc, t)
    \/ StopLiveLocationNotFound(SessionDoc)
    \/ \E b \in Buses : subscribeToLiveLocation(b)
    \/ RouteCallback
    \/ unsubscribe
    \/ subscribeToAllLiveLocations
    \/ FleetCallback

SpecDelivery ==
    Init /\ [][DeliveryNext]_vars /\ WF_vars(RouteCallback) /\ WF_vars(FleetCallback)

\* The sampler on its own: any caller, any provider answer.
SamplerNext ==
    \/ getCurrentPosition
    \/ \E c \in Positions, v \in ProviderSpeeds, t \in Times :
            GetCurrentPositionSuccess(c, v, t)
    \/ GetCurrentPositionError
    \/ startWatching
    \/ \E w \in watches, c \in Positions, v \in ProviderSpeeds, t \in Times :
            WatchPositionSuccess(w, c, v, t)
    \/ \E w \in watches : WatchPositionError(w)
    \/ stopWatching

SpecSampler == Init /\ [][SamplerNext]_vars

----------------------------------------------------------------------------
\* Properties of the store and its listeners.

ActiveFor(coll, busNumber) == {r \in coll : r.busNumber = busNumber /\ r.isActive}
\* Documents of other ids that are active on the same busNumber.
OtherActive(coll, id, busNumber) == {r \in ActiveFor(coll, busNumber) : r.id # id}
ActivePublishDone == lastWrite.kind = "publish" /\ lastWrite.isActive

\* C1 (as stated): after an active publish to a route, whoever issued it,
\* exactly one record with isActive = TRUE exists for that route.
C1_ExactlyOneActivePerRoute ==
    ActivePublishDone =>
        Cardinality(ActiveFor(liveLocations, lastWrite.busNumber)) = 1

\* C1 (amended): every document id holds at most one record, an active
\* publish leaves the publisher's own record active on the published route,
\* and the route has exactly one active record when no other document id is
\* active on it (one driver session per route).
C1_OneActivePerRouteUnderExclusivity ==
    /\ \A id \in DocIds : Cardinality(DocsOf(liveLocations, id)) <= 1
    /\ ActivePublishDone =>
        /\ \E r \in DocsOf(liveLocations, lastWrite.id) :
                r.isActive /\ r.busNumber = lastWrite.busNumber
        /\ OtherActive(liveLocations, lastWrite.id, lastWrite.busNumber) = {} =>
                Cardinality(ActiveFor(liveLocations, lastWrite.busNumber)) = 1

\* An active publish has superseded an earlier, stopped record of the same id
\* while another id holds a record of its own.
C1_Witness ==
    /\ ActivePublishDone
    /\ Cardinality(liveLocations) = 2
    /\ \E r \in DocsOf(liveLocations, lastWrite.id) : r.isActive /\ r.stoppedAt > 0
    /\ Cardinality(ActiveFor(liveLocations, lastWrite.busNumber)) = 1

\* The route listener has been called back after a stopLiveLocation that no
\* publish followed, on the busNumber of the stopped document.
CalledBackAfterStop ==
    /\ lastWrite.kind = "stop"
    /\ routeFresh
    /\ routeSubBus = lastWrite.busNumber

\* C2 (as stated): the next callback after a deactivate carries null.
C2_NullAfterDeactivate == CalledBackAfterStop => routeDelivered = <<>>

\* C2 (amended): the next callback after a deactivate carries null when no
\* document of another id is active on the same busNumber.
C2_NullAfterDeactivateUnderExclusivity ==
    (CalledBackAfterStop
        /\ OtherActive(liveLocations, lastWrite.id, lastWrite.busNumber) = {})
    => routeDelivered = <<>>

\* The callback after the stop delivered null although another route is active.
C2_Witness ==
    /\ CalledBackAfterStop
    /\ OtherActive(liveLocations, lastWrite.id, lastWrite.busNumber) = {}
    /\ routeDelivered = <<>>
    /\ \E r \in liveLocations : r.isActive

\* C11: once the function returned by subscribeToLiveLocation has been called,
\* no step invokes the subscription's callback again (what was delivered and
\* whether it was called stay as they were), whatever is published or stopped
\* afterwards; a second call of that function changes nothing but the count
\* of calls.
C11_NoCallbackAfterUnsubscribe ==
    [][routeUnsubscribes >= 1 =>
            /\ routeCalled' = routeCalled
            /\ routeDelivered' = routeDelivered
            /\ routeSubBus' = routeSubBus
            /\ (routeUnsubscribes' # routeUnsubscribes =>
                    /\ routeUnsubscribes' = routeUnsubscribes + 1
                    /\ liveLocations' = liveLocations
                    /\ lastWrite' = lastWrite)]_vars

\* The listener was detached twice and the store has since changed so that
\* the query's result differs from what the callback received last.
C11_Witness ==
    /\ routeUnsubscribes = 2
    /\ routeCalled
    /\ LiveLocationQuery(liveLocations, routeSubBus) # routeDelivered

\* Every attached listener has been called back with its query's result over
\* the current store.
RouteUpToDate ==
    ListenerAttached(routeSubBus, routeUnsubscribes) =>
        routeCalled /\ routeDelivered = LiveLocationQuery(liveLocations, routeSubBus)
FleetUpToDate ==
    fleetSub => fleetCalled /\ fleetDelivered = AllLiveLocationsQuery(liveLocations)

\* C12: if from some point on no publish or deactivate changes the store,
\* then from some point on every attached listener (route or fleet) has last
\* been called back with the result of its query over that final store state,
\* however many writes each callback coalesced.
C12_FinalCallbackReflectsLatest ==
    (<>[][liveLocations' = liveLocations]_vars) => <>[](RouteUpToDate /\ FleetUpToDate)

\* Both listeners are attached and up to date after a callback that followed
\* the last write, with the record republished after a stop delivered to each.
C12_Witness ==
    /\ ListenerAttached(routeSubBus, routeUnsubscribes) /\ fleetSub
    /\ RouteUpToDate /\ FleetUpToDate
    /\ routeFresh
    /\ routeDelivered # <<>>
    /\ Len(fleetDelivered) = 1
    /\ fleetDelivered[1].stoppedAt > 0

\* What updateLiveLocation must leave of coll when it publishes the given
\* fields under id: every other document as it was, and one document of id
\* with the published fields and the stoppedAt it had before (none if new).
PublishFrame(coll, after, id, busNumber, timestamp, isActive) ==
    /\ {r \in after : r.id # id} = {r \in coll : r.id # id}
    /\ DocsOf(after, id) =
            {LiveLocation(id, busNumber, timestamp, isActive,
                          IF DocsOf(coll, id) = {} THEN 0
                          ELSE (CHOOSE r \in DocsOf(coll, id) : TRUE).stoppedAt)}

\* C17: in every reachable store, for every record, publishing it twice
\* gives the store that publishing it once gives, and one publish changes
\* only the fields it carries of the document of its id: stoppedAt and every
\* other document stay as they were; every publish step taken obeys the same.
C17_PublishIdempotentMerge ==
    /\ [](\A id \in DocIds, b \in Buses, t \in Times, a \in BOOLEAN :
            LET d == [driverId |-> id, busNumber |-> b, timestamp |-> t, isActive |-> a]
                once == updateLiveLocation(liveLocations, d)
            IN /\ updateLiveLocation(once, d) = once
               /\ PublishFrame(liveLocations, once, id, b, t, a))
    /\ [][lastWrite'.kind = "publish" =>
            /\ {r \in liveLocations' : r.id # lastWrite'.id}
                    = {r \in liveLocations : r.id # lastWrite'.id}
            /\ \A r \in DocsOf(liveLocations, lastWrite'.id) :
                    \A q \in DocsOf(liveLocations', lastWrite'.id) :
                        q.stoppedAt = r.stoppedAt]_vars

\* An inactive publish was merged into a stopped document, keeping its
\* stoppedAt, while another document is active.
C17_Witness ==
    /\ lastWrite.kind = "publish"
    /\ ~lastWrite.isActive
    /\ \E r \in DocsOf(liveLocations, lastWrite.id) : ~r.isActive /\ r.stoppedAt > 0
    /\ \E r \in liveLocations : r.id # lastWrite.id /\ r.isActive

\* C18: after a publish whose data carried no isActive, the stored document
\* has isActive = TRUE.
C18_PublishDefaultsToActive ==
    lastWrite.kind = "publishWithoutIsActive" =>
        \E r \in DocsOf(liveLocations, lastWrite.id) : r.isActive

\* C19: a stopLiveLocation step changes, of the whole collection, only
\* isActive (to FALSE) and stoppedAt (to the stop time) of the document it
\* names, whose busNumber and sample stay as they were; and no step of any
\* operation removes a document.
C19_DeactivateFrame ==
    [][/\ \A r \in liveLocations : DocsOf(liveLocations', r.id) # {}
       /\ (lastWrite'.kind = "stop" /\ liveLocations' # liveLocations) =>
            /\ Cardinality(liveLocations') = Cardinality(liveLocations)
            /\ \A r \in liveLocations :
                    IF r.id = lastWrite'.id
                    THEN \E t \in StopTimes :
                            [r EXCEPT !.isActive = FALSE, !.stoppedAt = t] \in liveLocations'
                    ELSE r \in liveLocations']_vars

\* A document published with a later sample has been stopped and keeps that
\* sample, next to another document.
C19_Witness ==
    /\ lastWrite.kind = "stop"
    /\ Cardinality(liveLocations) = 2
    /\ \E r \in DocsOf(liveLocations, lastWrite.id) :
            ~r.isActive /\ r.stoppedAt > 0 /\ r.timestamp > 1

\* C30: no record that is active carries a stop timestamp.
C30_ActiveRecordHasNoStoppedAt ==
    \A r \in liveLocations : r.isActive => r.stoppedAt = 0

\* C3: every list delivered to the subscribeToAllLiveLocations callback holds
\* only records whose isActive is TRUE.
C3_FleetOnlyActive ==
    \A i \in 1..Len(fleetDelivered) : fleetDelivered[i].isActive

\* A list was delivered while the store also holds an inactive record.
C3_Witness ==
    /\ fleetCalled
    /\ Len(fleetDelivered) >= 1
    /\ fleetDelivered = AllLiveLocationsQuery(liveLocations)
    /\ \E r \in liveLocations : ~r.isActive

\* C4: the value delivered to the subscribeToLiveLocation callback is null
\* exactly when the route has no active record in the store state the
\* callback reflects, and otherwise is an active record of the route whose
\* timestamp no other active record of the route exceeds.
C4_RouteDeliversLatestActive ==
    routeFresh =>
        LET act == ActiveFor(liveLocations, routeSubBus)
        IN /\ routeDelivered = <<>> <=> act = {}
           /\ routeDelivered # <<>> =>
                /\ Len(routeDelivered) = 1
                /\ routeDelivered[1] \in act
                /\ \A s \in act : s.timestamp <= routeDelivered[1].timestamp

\* The callback chose between two active records of the route with different
\* timestamps.
C4_Witness ==
    /\ routeFresh
    /\ routeDelivered # <<>>
    /\ \E r, s \in ActiveFor(liveLocations, routeSubBus) : r.timestamp < s.timestamp

----------------------------------------------------------------------------
\* Handlers and callbacks of the driver session.

storeIdle == <<routeVars, routeFresh, fleetVars>>

\* The start button's onClick: startTracking up to its first await.
StartTrackingClick ==
    /\ mounted
    /\ StartButtonEnabled
    /\ StartsInFlight < MaxStarts
    /\ locationError' = ""
    /\ starts' = Spawn(starts, IF locationPermission # "granted" THEN "perm" ELSE "fix")
    /\ lastEvent' = "startTracking"
    /\ UNCHANGED <<samplerVars, mounted, liveLocations, lastWrite, storeIdle, drivers, isTracking, watchId,
                   locationPermission, currentLocation, requests, stops, watches,
                   nextWatchId>>

\* requestLocationPermission called by startTracking settles; it catches its
\* own failure, so startTracking goes on to getCurrentLocation either way.
StartPermissionSettles(outcome) ==
    /\ starts["perm"] > 0
    /\ IF outcome = "ok"
       THEN /\ currentLocation' = TRUE
            /\ locationPermission' = "granted"
            /\ locationError' = ""
            /\ starts' = Move(starts, "perm", "fix")
       ELSE /\ locationError' = outcome
            /\ locationPermission' = "denied"
            /\ starts' = Move(starts, "perm", "fixPermFailed")
            /\ UNCHANGED currentLocation
    /\ lastEvent' = "requestLocationPermission"
    /\ UNCHANGED <<samplerVars, mounted, liveLocations, lastWrite, storeIdle, drivers, isTracking, watchId,
                   requests, stops, watches, nextWatchId>>

\* getCurrentLocation of startTracking resolves: the watch is registered, the
\* session is marked tracking and the driver status is written.
StartFixResolves(pc) ==
    /\ starts[pc] > 0
    /\ nextWatchId <= MaxWatchId
    /\ currentLocation' = TRUE
    /\ watches' = watches \cup {nextWatchId}
    /\ nextWatchId' = nextWatchId + 1
    /\ watchId' = nextWatchId
    /\ isTracking' = TRUE
    /\ drivers' = [isOnline |-> TRUE, isTracking |-> TRUE]
    /\ starts' = Finish(starts, pc)
    /\ lastEvent' = "startTrackingDone"
    /\ UNCHANGED <<samplerVars, mounted, liveLocations, lastWrite, storeIdle, locationPermission,
                   locationError, requests, stops>>

\* getCurrentLocation of startTracking rejects: the catch shows the message.
StartFixRejects(pc, outcome) ==
    /\ outcome # "ok"
    /\ starts[pc] > 0
    /\ locationError' = outcome
    /\ starts' = Finish(starts, pc)
    /\ lastEvent' = "startTrackingFailed"
    /\ UNCHANGED <<samplerVars, mounted, liveLocations, lastWrite, storeIdle, drivers, isTracking, watchId,
                   locationPermission, currentLocation, requests, stops, watches,
                   nextWatchId>>

\* The "Request Location Access" button's onClick.
RequestAccessClick ==
    /\ mounted
    /\ RequestButtonVisible
    /\ requests < MaxRequests
    /\ requests' = requests + 1
    /\ lastEvent' = "requestAccess"
    /\ UNCHANGED <<samplerVars, mounted, liveLocations, lastWrite, storeIdle, drivers, isTracking, watchId,
                   locationPermission, locationError, currentLocation, starts, stops,
                   watches, nextWatchId>>

\* requestLocationPermission called by the button settles.
RequestAccessSettles(outcome) ==
    /\ requests > 0
    /\ requests' = requests - 1
    /\ IF outcome = "ok"
       THEN /\ currentLocation' = TRUE
            /\ locationPermission' = "granted"
            /\ locationError' = ""
       ELSE /\ locationError' = outcome
            /\ locationPermission' = "denied"
            /\ UNCHANGED currentLocation
    /\ lastEvent' = "requestAccessSettled"
    /\ UNCHANGED <<samplerVars, mounted, liveLocations, lastWrite, storeIdle, drivers, isTracking, watchId,
                   starts, stops, watches, nextWatchId>>

\* The 'change' listener of the permission status.
PermissionChange(state) ==
    /\ mounted
    /\ state # locationPermission
    /\ locationPermission' = state
    /\ lastEvent' = "permissionChange"
    /\ UNCHANGED <<samplerVars, mounted, liveLocations, lastWrite, storeIdle, drivers, isTracking, watchId,
                   locationError, currentLocation, starts, requests, stops, watches,
                   nextWatchId>>

\* The success callback of a registered watch: the sample, stamped
\* t = Date.now(), is shown and published.
WatchSampleShownOnly(w, t) ==
    /\ w \in watches
    /\ currentLocation' = (IF mounted THEN TRUE ELSE currentLocation)
    /\ lastEvent' = "watchSample"
    /\ UNCHANGED <<samplerVars, mounted, liveLocations, lastWrite, storeIdle, drivers, isTracking,
                   watchId, locationPermission, locationError, starts, requests, stops,
                   watches, nextWatchId>>
WatchSample(w, t) ==
    /\ w \in watches
    /\ currentLocation' = (IF mounted THEN TRUE ELSE currentLocation)
    /\ liveLocations' = startLocationTracking(liveLocations, t)
    /\ lastWrite' = [kind |-> "publish", id |-> SessionDoc, busNumber |-> SessionBus,
                     isActive |-> TRUE]
    /\ routeFresh' = FALSE
    /\ lastEvent' = "watchSample"
    /\ UNCHANGED <<samplerVars, mounted, routeVars, fleetVars, drivers, isTracking, watchId,
                   locationPermission, locationError, starts, requests, stops, watches,
                   nextWatchId>>

\* The same callback when the store rejects the write or cannot be reached:
\* the promise startLocationTracking returned rejects; the callback neither
\* awaits it nor attaches a handler, so no state of the session changes.
WatchSamplePublishRejected(w) ==
    /\ w \in watches
    /\ currentLocation' = (IF mounted THEN TRUE ELSE currentLocation)
    /\ lastWrite' = [kind |-> "rejected", id |-> SessionDoc, busNumber |-> SessionBus,
                     isActive |-> TRUE]
    /\ lastEvent' = "watchSamplePublishRejected"
    /\ UNCHANGED <<samplerVars, mounted, liveLocations, storeIdle, drivers, isTracking, watchId,
                   locationPermission, locationError, starts, requests, stops, watches,
                   nextWatchId>>

\* The error callback of a registered watch.
WatchErrorAutoStop(w) ==
    /\ w \in watches
    /\ locationError' = (IF mounted THEN "gps" ELSE locationError)
    /\ watches' = watches \ {w}
    /\ isTracking' = FALSE
    /\ lastEvent' = "watchError"
    /\ UNCHANGED <<samplerVars, mounted, liveLocations, lastWrite, storeIdle, drivers, watchId,
                   locationPermission, currentLocation, starts, requests, stops,
                   nextWatchId>>
WatchError(w) ==
    /\ w \in watches
    /\ locationError' = (IF mounted THEN "gps" ELSE locationError)
    /\ lastEvent' = "watchError"
    /\ UNCHANGED <<samplerVars, mounted, liveLocations, lastWrite, storeIdle, drivers, isTracking, watchId,
                   locationPermission, currentLocation, starts, requests, stops, watches,
                   nextWatchId>>

\* The stop button's onClick: stopTracking up to its first await; t is
\* Date.now() in stopLocationTracking.
StopTrackingClick(t) ==
    /\ mounted
    /\ StopButtonVisible
    /\ StopsInFlight < MaxStops
    /\ IF watchId # 0
       THEN watches' = watches \ {watchId} /\ watchId' = 0
       ELSE UNCHANGED <<watches, watchId>>
    /\ isTracking' = FALSE
    /\ IF stopLocationTrackingOK(liveLocations)
       THEN /\ liveLocations' = stopLocationTracking(liveLocations, t)
            /\ lastWrite' = [kind |-> "stop", id |-> SessionDoc,
                             busNumber |-> (CHOOSE r \in DocsOf(liveLocations, SessionDoc) : TRUE).busNumber,
                             isActive |-> FALSE]
            /\ stops' = Spawn(stops, "deactOK")
       ELSE /\ lastWrite' = [kind |-> "rejected", id |-> SessionDoc,
                             busNumber |-> "none", isActive |-> FALSE]
            /\ stops' = Spawn(stops, "deactErr")
            /\ UNCHANGED liveLocations
    /\ routeFresh' = FALSE
    /\ lastEvent' = "stopTracking"
    /\ UNCHANGED <<samplerVars, mounted, routeVars, fleetVars, drivers, locationPermission, locationError,
                   currentLocation, starts, requests, nextWatchId>>

\* The same onClick when the store cannot be reached or refuses the write:
\* stopLocationTracking rejects and the record is left as it was.
StopTrackingClickStoreRejects ==
    /\ mounted
    /\ StopButtonVisible
    /\ StopsInFlight < MaxStops
    /\ IF watchId # 0
       THEN watches' = watches \ {watchId} /\ watchId' = 0
       ELSE UNCHANGED <<watches, watchId>>
    /\ isTracking' = FALSE
    /\ lastWrite' = [kind |-> "rejected", id |-> SessionDoc, busNumber |-> "none",
                     isActive |-> FALSE]
    /\ stops' = Spawn(stops, "deactErr")
    /\ lastEvent' = "stopTracking"
    /\ UNCHANGED <<samplerVars, mounted, liveLocations, storeIdle, drivers,
                   locationPermission, locationError, currentLocation, starts, requests,
                   nextWatchId>>

\* stopLocationTracking resolved: the driver status is written and
\* stopTracking returns.
StopTrackingDone ==
    /\ stops["deactOK"] > 0
    /\ stops' = Finish(stops, "deactOK")
    /\ drivers' = [isOnline |-> TRUE, isTracking |-> FALSE]
    /\ lastEvent' = "stopTrackingDone"
    /\ UNCHANGED <<samplerVars, mounted, liveLocations, lastWrite, storeIdle, isTracking, watchId,
                   locationPermission, locationError, currentLocation, starts, requests,
                   watches, nextWatchId>>

\* stopLocationTracking rejected: the catch logs it and stopTracking returns.
StopTrackingCaught ==
    /\ stops["deactErr"] > 0
    /\ stops' = Finish(stops, "deactErr")
    /\ lastEvent' = "stopTrackingCaught"
    /\ UNCHANGED <<samplerVars, mounted, liveLocations, lastWrite, storeIdle, drivers, isTracking, watchId,
                   locationPermission, locationError, currentLocation, starts, requests,
                   watches, nextWatchId>>

Next ==
    \/ StartTrackingClick
    \/ \E o \in FixOutcomes : StartPermissionSettles(o)
    \/ \E pc \in FixPcs : StartFixResolves(pc)
    \/ \E pc \in FixPcs, o \in FixOutcomes : StartFixRejects(pc, o)
    \/ RequestAccessClick
    \/ \E o \in FixOutcomes : RequestAccessSettles(o)
    \/ \E p \in Permissions : PermissionChange(p)
    \/ \E w \in watches, t \in Times : WatchSample(w, t)
    \/ \E w \in watches : WatchError(w)
    \/ \E t \in StopTimes : StopTrackingClick(t)
    \/ StopTrackingDone
    \/ StopTrackingCaught

Spec == Init /\ [][Next]_vars

\* The same session against a store that may reject a write.
NextUnreliableStore ==
    \/ Next
    \/ \E w \in watches : WatchSamplePublishRejected(w)
    \/ StopTrackingClickStoreRejects

SpecUnreliableStore == Init /\ [][NextUnreliableStore]_vars

\* The logout button's onClick (onLogout is App.handleLogout): App stops
\* rendering DriverDashboard, whose state is discarded; nothing runs on
\* unmount. Taken here while no handler of the dashboard awaits a result.
handleLogout ==
    /\ mounted
    /\ StartsInFlight = 0 /\ requests = 0 /\ StopsInFlight = 0
    /\ mounted' = FALSE
    /\ isTracking' = FALSE
    /\ watchId' = 0
    /\ locationPermission' = "prompt"
    /\ locationError' = ""
    /\ currentLocation' = FALSE
    /\ lastEvent' = "logout"
    /\ UNCHANGED <<samplerVars, storeVars, drivers, starts, requests, stops, watches,
                   nextWatchId>>

\* The driver logs in again (DriverLogin's onLogin, App.handleLogin): a fresh
\* DriverDashboard is rendered with its initial state.
handleLogin ==
    /\ ~mounted
    /\ mounted' = TRUE
    /\ lastEvent' = "login"
    /\ UNCHANGED <<samplerVars, storeVars, drivers, isTracking, watchId,
                   locationPermission, locationError, currentLocation, starts, requests,
                   stops, watches, nextWatchId>>

\* The session with logout and login.
NextLogout ==
    \/ Next
    \/ handleLogout
    \/ handleLogin

SpecLogout == Init /\ [][NextLogout]_vars

\* The same session in a browser without the Permissions API
\* ('permissions' in navigator is false): no 'change' event arrives.
NextNoPermissionEvents ==
    \/ StartTrackingClick
    \/ \E o \in FixOutcomes : StartPermissionSettles(o)
    \/ \E pc \in FixPcs : StartFixResolves(pc)
    \/ \E pc \in FixPcs, o \in FixOutcomes : StartFixRejects(pc, o)
    \/ RequestAccessClick
    \/ \E o \in FixOutcomes : RequestAccessSettles(o)
    \/ \E w \in watches, t \in Times : WatchSample(w, t)
    \/ \E w \in watches : WatchError(w)
    \/ \E t \in StopTimes : StopTrackingClick(t)
    \/ StopTrackingDone
    \/ StopTrackingCaught

SpecNoPermissionEvents == Init /\ [][NextNoPermissionEvents]_vars

----------------------------------------------------------------------------
\* Properties of the driver session.

SessionActive == \E r \in DocsOf(liveLocations, SessionDoc) : r.isActive
StopCompleted == lastEvent \in {"stopTrackingDone", "stopTrackingCaught"}
Quiescent == StartsInFlight = 0 /\ requests = 0 /\ StopsInFlight = 0

\* C5: a start issued before any stop, also while an earlier start still
\* awaits its fix, registers no additional watch: the session never holds two
\* registered watches.
C5_SecondStartRegistersNoWatch == Cardinality(watches) <= 1

\* C6: once a stop has completed (with no error shown by the session) the
\* watch is cancelled, the session's record is inactive, the driver status is
\* online and not tracking, and the session is not tracking.
C6_StopEffects ==
    (StopCompleted /\ locationError = "") =>
        /\ watches = {}
        /\ ~SessionActive
        /\ drivers = [isOnline |-> TRUE, isTracking |-> FALSE]
        /\ ~isTracking

\* C7: a stop completed after the watch reported a failure leaves the session
\* not tracking and has written the driver status.
C7_StopSafeAfterWatchFailure ==
    (StopCompleted /\ locationError = "gps") =>
        /\ ~isTracking
        /\ drivers = [isOnline |-> TRUE, isTracking |-> FALSE]

\* C8: a provider error received by the watch's error callback cancels no
\* watch, leaves the session's tracking state, the store and the driver status
\* as they were, and while tracking the session's watch stays registered, so
\* later fixes are still delivered.
C8_ProviderErrorKeepsTracking ==
    /\ [][lastEvent' = "watchError" =>
            /\ watches' = watches
            /\ watchId' = watchId
            /\ isTracking' = isTracking
            /\ liveLocations' = liveLocations
            /\ drivers' = drivers]_vars
    /\ []((lastEvent = "watchError" /\ isTracking) => watchId \in watches)

\* A provider error arrived while tracking with the record active.
C8_Witness ==
    /\ lastEvent = "watchError"
    /\ isTracking
    /\ watchId \in watches
    /\ SessionActive
    /\ locationError = "gps"

\* C9: every step of a start whose one-shot fix failed, the failure included,
\* leaves an error shown, the tracking state, the watches, the store and the
\* driver status as they were.
C9_FailedFixNeverTracks ==
    [][(\/ starts'["fixPermFailed"] # starts["fixPermFailed"]
        \/ lastEvent' = "startTrackingFailed") =>
            /\ locationError' # ""
            /\ isTracking' = isTracking
            /\ watches' = watches
            /\ liveLocations' = liveLocations
            /\ drivers' = drivers]_vars

\* C10: whenever the session has failed (permission denied or an error
\* shown), is not tracking and has no handler in flight, a retry control is
\* enabled: the start button or the request-access button.
SessionFailed == locationPermission = "denied" \/ locationError # ""
C10_RetryAlwaysEnabled ==
    (SessionFailed /\ ~isTracking /\ Quiescent) =>
        (StartButtonEnabled \/ RequestButtonVisible)

\* C24: the session is tracking only when a publish of its route has been
\* accepted by the store, that is, its document exists.
C24_TrackingOnlyAfterFirstPublish ==
    isTracking => DocsOf(liveLocations, SessionDoc) # {}

\* C25: every sample a watch delivers is published once as an active record
\* of the session's document and leaves the tracking state, the watch id, the
\* error shown and the driver status as they were; a start that succeeds
\* writes the driver status online and tracking and marks the session tracking.
C25_PublishPerSampleAndStatusUpdate ==
    /\ [][lastEvent' = "watchSample" =>
            /\ \E t \in Times : liveLocations' = startLocationTracking(liveLocations, t)
            /\ \E r \in DocsOf(liveLocations', SessionDoc) :
                    r.isActive /\ r.busNumber = SessionBus
            /\ lastWrite' = [kind |-> "publish", id |-> SessionDoc,
                             busNumber |-> SessionBus, isActive |-> TRUE]
            /\ isTracking' = isTracking
            /\ watchId' = watchId
            /\ locationError' = locationError
            /\ drivers' = drivers]_vars
    /\ [][lastEvent' = "startTrackingDone" =>
            /\ isTracking'
            /\ drivers' = [isOnline |-> TRUE, isTracking |-> TRUE]
            /\ liveLocations' = liveLocations]_vars

\* While tracking, with the driver status online and tracking, a later sample
\* has replaced an earlier one in the session's active record.
C25_Witness ==
    /\ lastEvent = "watchSample"
    /\ isTracking
    /\ watchId \in watches
    /\ drivers = [isOnline |-> TRUE, isTracking |-> TRUE]
    /\ \E r \in DocsOf(liveLocations, SessionDoc) : r.isActive /\ r.timestamp > 1

\* C26: whenever the session is not tracking and no start awaits its fix
\* (idle after a stop, after a failed start, or after logout), no watch is
\* registered with the provider.
C26_NoWatchWhenNotTracking ==
    (~isTracking /\ StartsInFlight = 0) => watches = {}

\* C27: while the session is stopped (not tracking, no start or stop in
\* flight, the stop having written the driver status) its record is not
\* active.
C27_InactiveWhileStopped ==
    (/\ ~isTracking /\ StartsInFlight = 0 /\ StopsInFlight = 0
     /\ drivers = [isOnline |-> TRUE, isTracking |-> FALSE]) => ~SessionActive

\* C28: once a stop has run and left the session not tracking, the session's
\* record is not active and the driver status does not say tracking.
C28_StopAgreesWithStore ==
    (StopCompleted /\ ~isTracking) => (~SessionActive /\ ~drivers.isTracking)

\* C20: whenever the write of a sample tick has been rejected, the session
\* shows the failure (locationError is set).
C20_PublishFailureSurfaced ==
    lastEvent = "watchSamplePublishRejected" => locationError # ""

----------------------------------------------------------------------------
\* Properties of the sampler.

StopWatchingReturned == lastEvent \in {"stopWatching", "stopWatchingNoWatch"}

C14_EstimatorStateAbsentAfterStop ==
    StopWatchingReturned => previousLocation = 0 /\ previousTimestamp = 0

\* C15: a calculateSpeed call made with no prior estimator state takes the
\* first-call branch, returns the speed the provider reported, or 0 when it
\* reported none, and leaves the call's coordinate and Date.now() as the state.
C15_FirstCallReturnsProviderSpeed ==
    [][(lastEvent' \in {"sample", "fetched"} /\ previousLocation = 0) =>
            /\ lastCall'.branch = "first"
            /\ lastCall'.result =
                    (IF lastCall'.speed = NoSpeed THEN 0 ELSE 10 * lastCall'.speed)
            /\ previousLocation' = lastCall'.coord
            /\ previousTimestamp' = lastCall'.now]_vars

\* The first sample of a watch started after an earlier one was stopped
\* carried a provider speed.
C15_Witness ==
    /\ lastEvent = "sample"
    /\ lastCall.branch = "first"
    /\ lastCall.speed > 0
    /\ lastCall.result = 10 * lastCall.speed
    /\ cleared # {}

\* C16: a calculateSpeed call with prior state and no time elapsed since it
\* (the same or an earlier Date.now()) returns exactly 0, with time elapsed
\* it returns the rounded quotient by that positive time, and no call
\* returns a negative speed.
C16_NeverNegativeNoDivisionByZero ==
    /\ lastCall.result >= 0
    /\ lastCall.branch = "next" =>
            /\ lastCall.hadLocation # 0 /\ lastCall.hadTimestamp # 0
            /\ lastCall.now <= lastCall.hadTimestamp => lastCall.result = 0
            /\ lastCall.now > lastCall.hadTimestamp =>
                    lastCall.result =
                        Round(StepMetres * Abs(lastCall.coord - lastCall.hadLocation) * 36000,
                              lastCall.now - lastCall.hadTimestamp)

\* A sample arrived at another position with a Date.now() earlier than the
\* stored one.
C16_Witness ==
    /\ lastCall.branch = "next"
    /\ lastCall.now < lastCall.hadTimestamp
    /\ lastCall.coord # lastCall.hadLocation
    /\ lastCall.result = 0

\* A provider failure arrived at the error callback of a watch; it reached the
\* caller when it rejected the promise startWatching returned.
WatchFailureOccurred == lastEvent \in {"sampleFailed", "sampleFailedSettled"}
WatchFailureReported == lastEvent = "sampleFailed"

\* C21: every provider failure that arrives during a continuous watch, also
\* after the first fix or after an earlier failure, is reported to the caller
\* of startWatching.
C21_EveryWatchFailureReported == WatchFailureOccurred => WatchFailureReported

C23_AtMostOneRegistration ==
    /\ Cardinality(watches) <= 1
    /\ \A w \in watches : w = lsWatchId

\* C29: when startWatching rejects because the provider's first event for the
\* watch is an error, no watch remains registered.
C29_RejectedStartLeavesNoWatch == lastEvent = "sampleFailed" => watches = {}

====
